---- MODULE Spec2Model ----
(***************************************************************************)
(* Automatic candy dispenser (src/Dispenser.ino): the control cycle loop() *)
(* of an Arduino sketch that fuses a manual button and an ultrasonic       *)
(* distance sensor into dispense / block-warning decisions.                *)
(*                                                                         *)
(* The sketch is single threaded and uses no interrupts, and every helper  *)
(* it calls blocks until it returns, so one pass of loop() is one atomic   *)
(* step.  The operations a pass performs are recorded, in program order,   *)
(* in the variable events.                                                 *)
(***************************************************************************)
EXTENDS Integers, Sequences, FiniteSets

\* ------------------------------------------------------------ constants --
LOW  == 0
HIGH == 1

\* const int stepsPerRevolution = 100;
stepsPerRevolution == 100

\* for (int i = 0; i < stepsPerRevolution * 2; i++)
RotateMultiplier == 2

\* const int Threshold = 2;
Threshold == 2

\* if (distance < 30)
NearLimit == 30

\* if (currThreshold > 3)
BlockLimit == 3

\* int is 16 bits wide on the ATmega328P of the Arduino Uno the sketch targets
IntBits == 16

IntMax == 2 ^ (IntBits - 1) - 1
IntMin == -(2 ^ (IntBits - 1))

\* pulseIn(echoPin, HIGH) returns 0 when no echo pulse arrives
NoEcho == 0

\* --------------------------------------------------------------- bounds --
\* Longest run of consecutive near samples the model follows.  It lies past
\* 2^IntBits + BlockLimit so that the counter passes through every int value.
MaxRun == 65541

\* Longest run followed by the specification with fairness.
MaxRunLive == 8

\* Longest run followed by the statement-by-statement specification.
MaxRunStep == 5

\* Number of times the model lets pulseIn() go on waiting before its timeout
\* expires.
MaxPolls == 2

\* Configurations of the two settings that size the dispense motion: the
\* sketch's own, and a halved stepsPerRevolution and a multiplier of 1.
SprValues  == {stepsPerRevolution, stepsPerRevolution \div 2}
MultValues == {RotateMultiplier, 1}

\* Echo pulse widths (microseconds) the sensor may report: no echo, and the
\* widths of objects at 20 cm, 30 cm and 35 cm.
Durations == {NoEcho, 1177, 1765, 2059}

\* ---------------------------------------------------------------- state --
VARIABLES
    buttonPin,       \* electrical level of the button input (environment)
    buttonState,     \* int  buttonState
    buttonIsActive,  \* bool buttonIsActive
    currThreshold,   \* int  currThreshold
    duration,        \* long duration of the last getDistance()
    distance,        \* int  distance of the last pass of loop()
    events,          \* operations performed by the last pass of loop()
    runLen,          \* history: near samples since the last non-near sample
    runNoEcho,       \* history: every sample of the current run was a no-echo
    warnedInRun,     \* history: the block warning sounded in the current run
    served,          \* history: a manual dispense ran since the last press
    \* the statement-by-statement execution of loop()
    pc,              \* statement of loop() to execute next
    loopI,           \* int i of the for loop in rotateStepper/retractStepper
    waited,          \* times pulseIn() has gone on waiting in this pass
    spr,             \* configured stepsPerRevolution
    mult,            \* configured multiplier of the loop in rotateStepper()
    rotPulses,       \* step pulses issued by the last rotateStepper()
    retPulses,       \* step pulses issued by the last retractStepper()
    dirPin,          \* level last written to dirPin
    prevButton       \* history: button sample of the pass before this one

stepVars == <<pc, loopI, waited, spr, mult, rotPulses, retPulses, dirPin,
              prevButton>>

vars == <<buttonPin, buttonState, buttonIsActive, currThreshold, duration,
          distance, events, runLen, runNoEcho, warnedInRun, served, stepVars>>

\* everything but the button input
progVars == <<buttonState, buttonIsActive, currThreshold, duration,
              distance, events, runLen, runNoEcho, warnedInRun>>

\* ------------------------------------------------------- pure functions --
\* Value of an int expression stored in a 16-bit int.
ToInt(v) == ((v - IntMin) % (2 ^ IntBits)) + IntMin

\* Variant: a read without echo is reported as out of range.
ConvertDistanceNoEchoFar(dur) ==
    IF dur = NoEcho THEN IntMax ELSE ToInt((dur * 34) \div 2000)

\* int distance = duration * 0.034 / 2;   (conversion to int truncates)
ConvertDistance(dur) == ToInt((dur * 34) \div 2000)

\* if (distance < 30)
IsNear(d) == d < NearLimit

\* Variant: the else branch does not reset the counter.
UpdateCounterNoReset(c, d) == IF IsNear(d) THEN ToInt(c + 1) ELSE c

\* currThreshold = currThreshold + 1;  /  currThreshold = 0;
UpdateCounter(c, d) == IF IsNear(d) THEN ToInt(c + 1) ELSE 0

\* Variant: the trigger is "at least Threshold" instead of "exactly".
AutoTriggerAtLeast(c, active) == c >= Threshold /\ ~active

\* Variant: the trigger ignores buttonIsActive.
AutoTriggerNoFlag(c, active) == c = Threshold

\* Variant: the trigger is "above Threshold" instead of "exactly".
AutoTriggerAbove(c, active) == c > Threshold /\ ~active

\* if (currThreshold == Threshold && !buttonIsActive)
AutoTrigger(c, active) == c = Threshold /\ ~active

\* Variant: the warning starts at BlockLimit instead of above it.
BlockTriggerAtLeast(c) == c >= BlockLimit

\* if (currThreshold > 3)
BlockTrigger(c) == c > BlockLimit

\* Variant: the retract loop copies the limit of the rotate loop.
RetractLimitLikeRotate(s, m) == ToInt(s * m)

\* for (int i = 0; i < stepsPerRevolution * 2; i++)   in rotateStepper()
RotateLimit(s, m) == ToInt(s * m)

\* for (int i = 0; i < stepsPerRevolution; i++)       in retractStepper()
RetractLimit(s, m) == s

\* rotateStepper(): stepsPerRevolution * 2 step pulses with dirPin LOW
RotateSteps == RotateLimit(stepsPerRevolution, RotateMultiplier)

\* retractStepper(): stepsPerRevolution step pulses with dirPin HIGH
RetractSteps == RetractLimit(stepsPerRevolution, RotateMultiplier)

\* Variant: pulseIn() waits for the echo without a timeout.
PulseInWaitsForever(w) == FALSE

\* pulseIn(echoPin, HIGH): the wait ends at the default timeout
PulseInExpired(w) == w >= MaxPolls

\* ----------------------------------------------- the parts of one pass --
\* Variant: the held button sets the flag but does not move the auger.
ManualPartNoRotate(b) == <<"digitalRead">>

\* buttonState = digitalRead(buttonPin); if (buttonState == HIGH) {...}
ManualPart(b) ==
    IF b = HIGH THEN <<"digitalRead", "rotateStepper">>
                ELSE <<"digitalRead">>

\* buttonIsActive = true; / buttonIsActive = false;
ManualFlag(b) == (b = HIGH)

\* int distance = getDistance(); followed by the counter update
SensorPart == <<"getDistance", "updateCounter">>

\* Variant: the dispense branch beeps again instead of retracting.
AutoSequenceNoRetract ==
    <<"beep(1000,500)", "rotateStepper", "delay(10)", "beep(3000,80)",
      "delay(3000)", "beep(3000,80)", "beep(3000,80)">>

\* the body of the automatic dispense branch
AutoSequence ==
    <<"beep(1000,500)", "rotateStepper", "delay(10)", "retractStepper",
      "delay(3000)", "beep(3000,80)", "beep(3000,80)">>

AutoPart(c, active) == IF AutoTrigger(c, active) THEN AutoSequence ELSE <<>>

\* the block warning branch
WarnPart(c) == IF BlockTrigger(c) THEN <<"beep(500,1000)">> ELSE <<>>

\* delay(100);
PacePart == <<"delay(100)">>

\* ------------------------------------------------------------- actions --
\* setup() leaves the globals at their initializers; nothing has run yet.
InitWith(s, m) ==
    /\ buttonPin = LOW
    /\ buttonState = 0
    /\ buttonIsActive = FALSE
    /\ currThreshold = 0
    /\ duration = 0
    /\ distance = 0
    /\ events = <<>>
    /\ runLen = 0
    /\ runNoEcho = FALSE
    /\ warnedInRun = FALSE
    /\ served = FALSE
    /\ pc = "readButton"
    /\ loopI = 0
    /\ waited = 0
    /\ spr = s
    /\ mult = m
    /\ rotPulses = 0
    /\ retPulses = 0
    /\ dirPin = LOW
    /\ prevButton = LOW

Init == InitWith(stepsPerRevolution, RotateMultiplier)

\* One pass of loop() in which digitalRead() reports the level b and
\* pulseIn() reports the pulse width dur.
loopWith(b, dur, maxRun) ==
    LET d == ConvertDistance(dur)
        c == UpdateCounter(currThreshold, d)
        a == ManualFlag(b)
    IN  /\ d < NearLimit => runLen < maxRun
        /\ buttonState' = b
        /\ buttonIsActive' = a
        /\ duration' = dur
        /\ distance' = d
        /\ currThreshold' = c
        /\ events' = ManualPart(b) \o SensorPart \o AutoPart(c, a)
                        \o WarnPart(c) \o PacePart
        /\ runLen' = IF d < NearLimit THEN runLen + 1 ELSE 0
        /\ runNoEcho' = /\ d < NearLimit
                        /\ dur = NoEcho
                        /\ (runLen = 0 \/ runNoEcho)
        /\ warnedInRun' = /\ d < NearLimit
                          /\ (warnedInRun \/ c > BlockLimit)
        /\ served' = (b = HIGH)

\* A pass of loop(); the button is at whatever level the user left it.
loop ==
    \E b \in {LOW, HIGH}, dur \in Durations :
        /\ buttonPin' = b
        /\ loopWith(b, dur, MaxRun)
        /\ UNCHANGED stepVars

Next == loop

Spec == Init /\ [][Next]_vars

\* ---------------------------------- the button as a separate process --
\* The user presses the button.
Press ==
    /\ buttonPin = LOW
    /\ buttonPin' = HIGH
    /\ served' = FALSE
    /\ UNCHANGED <<progVars, stepVars>>

\* The user releases the button.
Release ==
    /\ buttonPin = HIGH
    /\ buttonPin' = LOW
    /\ UNCHANGED <<progVars, served, stepVars>>

\* A pass of loop() that samples the button input.
loopLive ==
    \E dur \in Durations :
        /\ loopWith(buttonPin, dur, MaxRunLive)
        /\ UNCHANGED <<buttonPin, stepVars>>

NextLive == Press \/ Release \/ loopLive

\* main() calls loop() forever and every call in loop() returns (pulseIn()
\* gives up after its default timeout), so passes keep happening.
FairSpec == Init /\ [][NextLive]_vars /\ WF_vars(loopLive)

\* ------------------------------- loop() statement by statement --
\* The same pass of loop(), one statement (or one iteration of a for loop,
\* or one look at the echo pin) at a time.  events is cleared when a pass
\* starts and grows as the pass goes on.
motorVars  == <<loopI, rotPulses, retPulses, dirPin>>
cfgVars    == <<spr, mult>>
sensorVars == <<duration, distance, waited>>
histVars   == <<runLen, runNoEcho, warnedInRun>>
buttonVars == <<buttonPin, buttonState, prevButton, served>>

\* The sketch's configuration or one of the others; nothing has run yet.
StepInit == \E s \in SprValues, m \in MultValues : InitWith(s, m)

\* Variant: the else branch that clears buttonIsActive is missing.
SReadButtonNoClear ==
    /\ pc = "readButton"
    /\ \E b \in {LOW, HIGH} :
        /\ buttonPin' = b
        /\ prevButton' = buttonState
        /\ buttonState' = b
        /\ pc' = IF b = HIGH THEN "manualRotate" ELSE "getDistance"
    /\ served' = FALSE
    /\ events' = <<"digitalRead">>
    /\ UNCHANGED <<buttonIsActive, currThreshold, sensorVars, histVars,
                   motorVars, cfgVars>>

\* buttonState = digitalRead(buttonPin); if (buttonState == HIGH) ... else ...
SReadButton ==
    /\ pc = "readButton"
    /\ \E b \in {LOW, HIGH} :
        /\ buttonPin' = b
        /\ prevButton' = buttonState
        /\ buttonState' = b
        /\ IF b = HIGH
              THEN pc' = "manualRotate" /\ UNCHANGED buttonIsActive
              ELSE pc' = "getDistance" /\ buttonIsActive' = ManualFlag(b)
    /\ served' = FALSE
    /\ events' = <<"digitalRead">>
    /\ UNCHANGED <<currThreshold, sensorVars, histVars, motorVars, cfgVars>>

\* rotateStepper(): digitalWrite(dirPin, LOW); int i = 0
SRotateEnter ==
    /\ pc \in {"manualRotate", "autoRotate"}
    /\ pc' = IF pc = "manualRotate" THEN "manualRotateLoop"
                                    ELSE "autoRotateLoop"
    /\ dirPin' = LOW
    /\ loopI' = 0
    /\ rotPulses' = 0
    /\ UNCHANGED <<retPulses, buttonVars, buttonIsActive, currThreshold,
                   events, sensorVars, histVars, cfgVars>>

\* rotateStepper(): one iteration of the for loop, one step pulse
SRotatePulse ==
    /\ pc \in {"manualRotateLoop", "autoRotateLoop"}
    /\ loopI < RotateLimit(spr, mult)
    /\ loopI' = ToInt(loopI + 1)
    /\ rotPulses' = rotPulses + 1
    /\ UNCHANGED <<pc, retPulses, dirPin, buttonVars, buttonIsActive,
                   currThreshold, events, sensorVars, histVars, cfgVars>>

\* the manual rotateStepper() returns; buttonIsActive = true;
SManualDone ==
    /\ pc = "manualRotateLoop"
    /\ ~(loopI < RotateLimit(spr, mult))
    /\ buttonIsActive' = ManualFlag(buttonState)
    /\ served' = TRUE
    /\ events' = Append(events, "rotateStepper")
    /\ pc' = "getDistance"
    /\ UNCHANGED <<buttonPin, buttonState, prevButton, currThreshold,
                   sensorVars, histVars, motorVars, cfgVars>>

\* getDistance(): the trigger pulse
STrigger ==
    /\ pc = "getDistance"
    /\ waited' = 0
    /\ pc' = "pulseIn"
    /\ UNCHANGED <<duration, distance, buttonVars, buttonIsActive,
                   currThreshold, events, histVars, motorVars, cfgVars>>

\* pulseIn(): no echo pulse yet and the timeout has not expired
SPulseInWait ==
    /\ pc = "pulseIn"
    /\ ~PulseInExpired(waited)
    /\ runLen < MaxRunStep
    /\ waited' = (waited + 1) % (MaxPolls + 1)
    /\ UNCHANGED <<pc, duration, distance, buttonVars, buttonIsActive,
                   currThreshold, events, histVars, motorVars, cfgVars>>

\* pulseIn() has measured an echo pulse of width dur;
\* int distance = duration * 0.034 / 2; return distance;
SPulseInEcho ==
    /\ pc = "pulseIn"
    /\ ~PulseInExpired(waited)
    /\ \E dur \in Durations \ {NoEcho} :
        /\ ConvertDistance(dur) < NearLimit => runLen < MaxRunStep
        /\ duration' = dur
        /\ distance' = ConvertDistance(dur)
    /\ events' = Append(events, "getDistance")
    /\ pc' = "update"
    /\ UNCHANGED <<waited, buttonVars, buttonIsActive, currThreshold,
                   histVars, motorVars, cfgVars>>

\* pulseIn() gives up and returns 0
SPulseInTimeout ==
    /\ pc = "pulseIn"
    /\ PulseInExpired(waited)
    /\ duration' = NoEcho
    /\ distance' = ConvertDistance(NoEcho)
    /\ events' = Append(events, "getDistance")
    /\ pc' = "update"
    /\ UNCHANGED <<waited, buttonVars, buttonIsActive, currThreshold,
                   histVars, motorVars, cfgVars>>

\* if (distance < 30) currThreshold = currThreshold + 1; else currThreshold = 0;
SUpdate ==
    /\ pc = "update"
    /\ LET c == UpdateCounter(currThreshold, distance)
       IN  /\ currThreshold' = c
           /\ runLen' = IF distance < NearLimit THEN runLen + 1 ELSE 0
           /\ runNoEcho' = /\ distance < NearLimit
                           /\ duration = NoEcho
                           /\ (runLen = 0 \/ runNoEcho)
           /\ warnedInRun' = /\ distance < NearLimit
                             /\ (warnedInRun \/ c > BlockLimit)
    /\ events' = Append(events, "updateCounter")
    /\ pc' = "checkAuto"
    /\ UNCHANGED <<buttonVars, buttonIsActive, sensorVars, motorVars, cfgVars>>

\* if (currThreshold == Threshold && !buttonIsActive)
SCheckAuto ==
    /\ pc = "checkAuto"
    /\ pc' = IF AutoTrigger(currThreshold, buttonIsActive)
                THEN "autoBeep" ELSE "checkWarn"
    /\ UNCHANGED <<buttonVars, buttonIsActive, currThreshold, events,
                   sensorVars, histVars, motorVars, cfgVars>>

\* beep(1000, 500);
SAutoBeep ==
    /\ pc = "autoBeep"
    /\ events' = Append(events, "beep(1000,500)")
    /\ pc' = "autoRotate"
    /\ UNCHANGED <<buttonVars, buttonIsActive, currThreshold, sensorVars,
                   histVars, motorVars, cfgVars>>

\* the automatic rotateStepper() returns
SAutoRotateDone ==
    /\ pc = "autoRotateLoop"
    /\ ~(loopI < RotateLimit(spr, mult))
    /\ events' = Append(events, "rotateStepper")
    /\ pc' = "autoDelay"
    /\ UNCHANGED <<buttonVars, buttonIsActive, currThreshold, sensorVars,
                   histVars, motorVars, cfgVars>>

\* delay(10);
SAutoDelay ==
    /\ pc = "autoDelay"
    /\ events' = Append(events, "delay(10)")
    /\ pc' = "autoRetract"
    /\ UNCHANGED <<buttonVars, buttonIsActive, currThreshold, sensorVars,
                   histVars, motorVars, cfgVars>>

\* retractStepper(): digitalWrite(dirPin, HIGH); int i = 0
SRetractEnter ==
    /\ pc = "autoRetract"
    /\ pc' = "autoRetractLoop"
    /\ dirPin' = HIGH
    /\ loopI' = 0
    /\ retPulses' = 0
    /\ UNCHANGED <<rotPulses, buttonVars, buttonIsActive, currThreshold,
                   events, sensorVars, histVars, cfgVars>>

\* retractStepper(): one iteration of the for loop, one step pulse
SRetractPulse ==
    /\ pc = "autoRetractLoop"
    /\ loopI < RetractLimit(spr, mult)
    /\ loopI' = ToInt(loopI + 1)
    /\ retPulses' = retPulses + 1
    /\ UNCHANGED <<pc, rotPulses, dirPin, buttonVars, buttonIsActive,
                   currThreshold, events, sensorVars, histVars, cfgVars>>

\* retractStepper() returns
SRetractDone ==
    /\ pc = "autoRetractLoop"
    /\ ~(loopI < RetractLimit(spr, mult))
    /\ events' = Append(events, "retractStepper")
    /\ pc' = "autoConfirm"
    /\ UNCHANGED <<buttonVars, buttonIsActive, currThreshold, sensorVars,
                   histVars, motorVars, cfgVars>>

\* delay(3000); beep(3000, 80); beep(3000, 80);
SAutoConfirm ==
    /\ pc = "autoConfirm"
    /\ events' = events \o <<"delay(3000)", "beep(3000,80)", "beep(3000,80)">>
    /\ pc' = "checkWarn"
    /\ UNCHANGED <<buttonVars, buttonIsActive, currThreshold, sensorVars,
                   histVars, motorVars, cfgVars>>

\* Variant: the warning branch also restarts the count.
SCheckWarnResets ==
    /\ pc = "checkWarn"
    /\ events' = events \o WarnPart(currThreshold)
    /\ currThreshold' = IF BlockTrigger(currThreshold) THEN 0
                                                       ELSE currThreshold
    /\ pc' = "pace"
    /\ UNCHANGED <<buttonVars, buttonIsActive, sensorVars, histVars,
                   motorVars, cfgVars>>

\* if (currThreshold > 3) beep(500, 1000);
SCheckWarn ==
    /\ pc = "checkWarn"
    /\ events' = events \o WarnPart(currThreshold)
    /\ pc' = "pace"
    /\ UNCHANGED <<buttonVars, buttonIsActive, currThreshold, sensorVars,
                   histVars, motorVars, cfgVars>>

\* delay(100); loop() returns and main() calls it again
SPace ==
    /\ pc = "pace"
    /\ events' = events \o PacePart
    /\ pc' = "readButton"
    /\ UNCHANGED <<buttonVars, buttonIsActive, currThreshold, sensorVars,
                   histVars, motorVars, cfgVars>>

StepNext ==
    \/ SReadButton \/ SRotateEnter \/ SRotatePulse \/ SManualDone
    \/ STrigger \/ SPulseInWait \/ SPulseInEcho \/ SPulseInTimeout
    \/ SUpdate \/ SCheckAuto \/ SAutoBeep \/ SAutoRotateDone \/ SAutoDelay
    \/ SRetractEnter \/ SRetractPulse \/ SRetractDone \/ SAutoConfirm
    \/ SCheckWarn \/ SPace

\* The processor executes the next statement: nothing else runs and nothing
\* preempts the sketch.
StepSpec == StepInit /\ [][StepNext]_vars /\ WF_vars(StepNext)

\* ------------------------------------------------ reading the record --
Has(e) == \E i \in 1..Len(events) : events[i] = e

RECURSIVE CountIn(_, _)
CountIn(s, e) ==
    IF s = <<>> THEN 0
    ELSE (IF Head(s) = e THEN 1 ELSE 0) + CountIn(Tail(s), e)

Count(e) == CountIn(events, e)

\* a pass of loop() has run
CycleRan == events # <<>>

\* the last pass ran the automatic dispense sequence
AutoFired == Has("beep(1000,500)")

\* the last pass sounded the block warning
WarnFired == Has("beep(500,1000)")

\* the last pass ran the manual dispense (right after the button read)
ManualRotated == Len(events) >= 2 /\ events[2] = "rotateStepper"

\* the last sample was near
SampleNear == distance < NearLimit

IsOutput(e) ==
    e \in {"rotateStepper", "retractStepper", "beep(1000,500)",
           "beep(3000,80)", "beep(500,1000)"}

IsInput(e) == e \in {"digitalRead", "getDistance"}

\* the actuator and buzzer operations of the last pass, in order
Outputs == SelectSeq(events, IsOutput)

FirstIndex(e) == CHOOSE i \in 1..Len(events) :
                    events[i] = e /\ \A j \in 1..(i - 1) : events[j] # e

LastOutputIndex == CHOOSE i \in 1..Len(events) :
                    IsOutput(events[i])
                    /\ \A j \in (i + 1)..Len(events) : ~IsOutput(events[j])

\* Between passes the statement-by-statement execution has recorded exactly
\* what the one-step pass records.
StepMatchesPass ==
    (pc = "readButton" /\ CycleRan) =>
        /\ events = ManualPart(buttonState) \o SensorPart
                        \o AutoPart(currThreshold, buttonIsActive)
                        \o WarnPart(currThreshold) \o PacePart
        /\ buttonIsActive = ManualFlag(buttonState)
        /\ served = (buttonState = HIGH)
        /\ distance = ConvertDistance(duration)

\* ================================================================ claims ==

\* C1 (as stated): whatever the button does, the automatic dispense sequence
\* runs in a pass exactly when the current run of near samples has just
\* reached length Threshold, i.e. exactly once per run of that length or more.
C1_OncePerRun == CycleRan => (AutoFired <=> runLen = Threshold)

\* C1 (amended): the automatic dispense sequence runs in a pass exactly when
\* the button was sampled not held and the length of the current run of near
\* samples is Threshold, or Threshold plus a multiple of 2^IntBits: on the
\* run's second sample unless the button is held then, and not again within
\* the run before the int counter has wrapped all the way round.
C1_OncePerRunUnlessHeld ==
    CycleRan =>
        (AutoFired <=> /\ buttonState = LOW
                       /\ runLen >= Threshold
                       /\ (runLen - Threshold) % (2 ^ IntBits) = 0)

C1_Witness == AutoFired /\ runLen = Threshold /\ buttonState = LOW

\* C2: after a pass the counter equals the number of consecutive near
\* samples ending with that pass, and is 0 when the pass's sample is not near.
C2_CounterIsRunLength ==
    CycleRan => /\ currThreshold = runLen
                /\ (~SampleNear => currThreshold = 0)

\* C3 (as stated): in a pass in which buttonIsActive is true neither the
\* automatic dispense sequence nor the block-warning beep runs.
C3_HeldSuppressesAll == buttonIsActive => (~AutoFired /\ ~WarnFired)

\* C3 (amended): in a pass in which buttonIsActive is true the automatic
\* dispense sequence does not run, whatever the counter; the block-warning
\* beep is not suppressed, it runs exactly when the counter exceeds BlockLimit.
C3_HeldSuppressesAuto ==
    buttonIsActive => /\ ~AutoFired
                      /\ (WarnFired <=> currThreshold > BlockLimit)

C3_Witness == buttonIsActive /\ currThreshold = Threshold /\ ~AutoFired

\* C4: the block-warning beep sounds (once) in every pass whose updated
\* counter exceeds BlockLimit and in no other pass; it is silent in a pass
\* with a non-near sample, where the counter is back at 0; in a run of five
\* near samples it sounds on the 4th and 5th only.
C4_WarnIffBlocked ==
    CycleRan =>
        /\ (currThreshold > BlockLimit => Count("beep(500,1000)") = 1)
        /\ (currThreshold <= BlockLimit => Count("beep(500,1000)") = 0)
        /\ (~SampleNear => currThreshold = 0 /\ ~WarnFired)
        /\ (runLen \in 1..5 => (WarnFired <=> runLen \in {4, 5}))

C4_Witness == runLen = 5 /\ WarnFired /\ currThreshold = 5

\* C5 (as stated): a pass that samples the button held runs the forward
\* motion exactly once, no retract motion and no beep.
C5_HeldRotatesOnly ==
    buttonState = HIGH =>
        /\ Count("rotateStepper") = 1
        /\ Count("retractStepper") = 0
        /\ Outputs = <<"rotateStepper">>

\* C5 (amended): a pass that samples the button held runs the forward motion
\* exactly once, right after the button read, no retract motion and none of
\* the dispense beeps; the only beep it can make is the block warning, which
\* sounds exactly when the counter exceeds BlockLimit.
C5_HeldRotatesOnce ==
    buttonState = HIGH =>
        /\ ManualRotated
        /\ Count("rotateStepper") = 1
        /\ Count("retractStepper") = 0
        /\ Outputs = <<"rotateStepper">> \o
                     (IF currThreshold > BlockLimit
                         THEN <<"beep(500,1000)">> ELSE <<>>)

C5_Witness == buttonState = HIGH /\ currThreshold = Threshold /\ ManualRotated

\* C6: a pass in which the automatic dispense fires runs exactly one
\* pre-dispense beep, one forward motion, one retract motion and two
\* confirmation beeps, in that order, and no other actuator or buzzer
\* operation; both input reads of the pass come before the first of them.
C6_AutoSequenceExact ==
    AutoFired =>
        /\ Outputs = <<"beep(1000,500)", "rotateStepper", "retractStepper",
                       "beep(3000,80)", "beep(3000,80)">>
        /\ \A i \in 1..Len(events) :
              IsInput(events[i]) => i < FirstIndex("beep(1000,500)")
        /\ Count("digitalRead") = 1
        /\ Count("getDistance") = 1

C6_Witness == AutoFired /\ LastOutputIndex > FirstIndex("beep(1000,500)")

\* C7: once the counter has exceeded BlockLimit in a run of near samples the
\* automatic dispense sequence does not run again in that run, and no pass
\* runs both the automatic dispense sequence and the block-warning beep.
C7_NoDispenseOnceBlocked ==
    /\ warnedInRun => ~AutoFired
    /\ ~(AutoFired /\ WarnFired)

\* C8 (as stated): a pass that samples the button held leaves the counter as
\* it was at the start of the pass.
C8_HeldLeavesCounter ==
    [][(loop /\ buttonState' = HIGH) => currThreshold' = currThreshold]_vars

\* C8 (amended): a pass that samples the button held updates the counter
\* like any other pass: a near sample adds one (in int arithmetic), a
\* non-near sample resets it to 0.
C8_HeldUpdatesCounter ==
    [][(loop /\ buttonState' = HIGH) =>
          currThreshold' = IF distance' < NearLimit
                              THEN ToInt(currThreshold + 1) ELSE 0]_vars

C8_Witness == buttonState = HIGH /\ runLen = 3 /\ currThreshold = 3

\* C9: a read without echo gives distance 0 and counts as a near sample: it
\* takes the counter's increment branch; a run that starts with Threshold
\* no-echo reads fires the automatic dispense on the last of them if the
\* button is not held, and a run of more than BlockLimit no-echo reads has
\* sounded the block warning (first on read BlockLimit + 1).
C9_NoEchoState ==
    /\ (CycleRan /\ duration = NoEcho) => (distance = 0 /\ runLen >= 1)
    /\ (runNoEcho /\ runLen = Threshold /\ buttonState = LOW) => AutoFired
    /\ (runNoEcho /\ runLen = BlockLimit + 1) => WarnFired
    /\ (runNoEcho /\ runLen > BlockLimit) => warnedInRun

C9_NoEchoCountsAsNear ==
    /\ []C9_NoEchoState
    /\ [][(loop /\ duration' = NoEcho) =>
             currThreshold' = ToInt(currThreshold + 1)]_vars

C9_Witness == runNoEcho /\ runLen = BlockLimit + 1 /\ WarnFired

\* C10: whatever the counter, once the button is pressed a forward motion
\* runs unless the button is released first, and every pass made while the
\* button is held runs the forward motion right after the button read.
C10_ManualAlwaysDispenses ==
    /\ (buttonPin = HIGH) ~> (buttonPin = LOW \/ (served /\ ManualRotated))
    /\ [][(loopLive /\ buttonPin = HIGH) =>
             (ManualRotated' /\ served')]_vars

C10_Witness ==
    buttonPin = HIGH /\ served /\ ManualRotated /\ currThreshold > BlockLimit

\* C11 (as stated): whichever of the configurations of stepsPerRevolution
\* and of the rotate loop's multiplier is built, retractStepper() issues the
\* same number of step pulses, the number it issues in the sketch's own.
C11_RetractSameInAllConfigs ==
    pc = "autoConfirm" => retPulses = RetractSteps

\* C11 (amended): retractStepper() issues exactly stepsPerRevolution step
\* pulses, whatever the multiplier of the rotate loop; rotateStepper() issues
\* stepsPerRevolution times the multiplier.
C11_RetractFollowsStepsPerRev ==
    pc = "autoConfirm" => (retPulses = spr /\ rotPulses = spr * mult)

C11_Witness ==
    /\ pc = "autoConfirm"
    /\ mult # RotateMultiplier
    /\ spr = stepsPerRevolution
    /\ retPulses = RetractSteps
    /\ rotPulses # RotateSteps

\* C12: the counter counts near samples taken while the button is held, so
\* the first pass after a held pass fires the automatic dispense sequence as
\* soon as the run reaches Threshold, although only one near sample has been
\* taken since the button was released.
C12_FiresRightAfterRelease ==
    /\ (pc = "checkAuto" /\ buttonIsActive /\ SampleNear)
          => (currThreshold = runLen /\ currThreshold >= 1)
    /\ (pc = "readButton" /\ prevButton = HIGH /\ buttonState = LOW
           /\ runLen = Threshold) => AutoFired

C12_Witness ==
    /\ pc = "readButton"
    /\ prevButton = HIGH
    /\ buttonState = LOW
    /\ runLen = Threshold
    /\ AutoFired

\* positions of loop() after the counter update
AfterUpdate ==
    {"checkAuto", "autoBeep", "autoRotate", "autoRotateLoop", "autoDelay",
     "autoRetract", "autoRetractLoop", "autoConfirm", "checkWarn", "pace"}

\* events of the two decision branches
IsDecisionOutput(e) ==
    e \in {"beep(1000,500)", "retractStepper", "beep(3000,80)",
           "beep(500,1000)"}

\* C13: a pass samples the button once, then the sensor once, then updates
\* the counter once; the two conditions are evaluated, and their branches
\* run, only after that.
C13_OrderState ==
    /\ Count("digitalRead") <= 1
    /\ Count("getDistance") <= 1
    /\ Count("updateCounter") <= 1
    /\ (pc \in AfterUpdate \/ (pc = "readButton" /\ CycleRan)) =>
          /\ Count("digitalRead") = 1
          /\ Count("getDistance") = 1
          /\ Count("updateCounter") = 1
          /\ events[1] = "digitalRead"
          /\ FirstIndex("getDistance") + 1 = FirstIndex("updateCounter")
          /\ \A k \in 1..Len(events) :
                IsDecisionOutput(events[k]) => k > FirstIndex("updateCounter")
    /\ pc = "checkAuto" => events[Len(events)] = "updateCounter"

\* C13, continued: the counter changes in the update statement only.
C13_SampleUpdateDecide ==
    /\ []C13_OrderState
    /\ [][pc # "update" => currThreshold' = currThreshold]_vars

C13_Witness == pc = "pace" /\ AutoFired /\ buttonState = LOW

\* C14: whatever branches a pass takes and whether or not an echo arrives,
\* the pass reaches the pacing delay and the next pass samples the button.
C14_EveryCycleTerminates ==
    /\ (pc # "pace") ~> (pc = "pace")
    /\ (pc = "pulseIn") ~> (pc = "update")
    /\ []<>(pc = "pace")
    /\ []<>(events = <<"digitalRead">>)

C14_Witness ==
    /\ pc = "pace"
    /\ duration = NoEcho
    /\ PulseInExpired(waited)
    /\ buttonState = HIGH
    /\ WarnFired

\* C15: while near samples continue the counter never decreases and is never
\* negative, and once above BlockLimit it stays above it.
C15_CounterNeverWraps ==
    [][(loop /\ distance' < NearLimit) =>
          /\ currThreshold' >= currThreshold
          /\ currThreshold' >= 0
          /\ (currThreshold > BlockLimit => currThreshold' > BlockLimit)
          /\ (currThreshold >= Threshold => currThreshold' # Threshold)]_vars

\* C16: a pass runs at most one forward motion, never both the manual and
\* the automatic one; the retract motion runs only in the automatic dispense
\* sequence, as the operation right after its forward motion.
C16_OneForwardMotion ==
    /\ Count("rotateStepper") <= 1
    /\ ~(ManualRotated /\ AutoFired)
    /\ Count("retractStepper") <= 1
    /\ Has("retractStepper") =>
          /\ AutoFired
          /\ \E k \in 1..(Len(Outputs) - 1) :
                /\ Outputs[k] = "rotateStepper"
                /\ Outputs[k + 1] = "retractStepper"
                /\ k > 1 /\ Outputs[k - 1] = "beep(1000,500)"

C16_Witness == Has("retractStepper") /\ Count("rotateStepper") = 1

\* C17: when the automatic-dispense condition is evaluated buttonIsActive
\* is true exactly if the button sample of that pass was held, whatever the
\* sample of the pass before.
C17_FlagIsThisCyclesSample ==
    pc = "checkAuto" =>
        /\ buttonIsActive <=> (buttonPin = HIGH)
        /\ buttonState = buttonPin
        /\ Count("digitalRead") = 1

C17_Witness ==
    pc = "checkAuto" /\ prevButton = HIGH /\ buttonPin = LOW /\ ~buttonIsActive

\* The states of the arbiter, derived from the counter.
ArbiterIdle(c) == c = 0
ArbiterAccumulating(c) == 0 < c /\ c < Threshold
ArbiterReady(c) == AutoTrigger(c, FALSE)
ArbiterBlocked(c) == BlockTrigger(c)

ArbiterStates(c) ==
    (IF ArbiterIdle(c) THEN {"IDLE"} ELSE {})
    \cup (IF ArbiterAccumulating(c) THEN {"ACCUMULATING"} ELSE {})
    \cup (IF ArbiterReady(c) THEN {"DISPENSE_READY"} ELSE {})
    \cup (IF ArbiterBlocked(c) THEN {"BLOCKED"} ELSE {})

\* C18 (as stated): after every pass exactly one of the four states holds.
C18_StatesPartition == CycleRan => Cardinality(ArbiterStates(currThreshold)) = 1

\* C18 (amended): after every pass at most one of the four states holds, and
\* none holds exactly when the counter is above Threshold but not above
\* BlockLimit (the value 3) or negative (after the int counter has wrapped).
C18_StatesExclusiveWithGap ==
    CycleRan =>
        /\ Cardinality(ArbiterStates(currThreshold)) <= 1
        /\ ArbiterStates(currThreshold) = {} <=>
              \/ currThreshold \in (Threshold + 1)..BlockLimit
              \/ currThreshold < 0

C18_Witness == CycleRan /\ currThreshold = BlockLimit /\ runLen = BlockLimit

====
